---------------------------- MODULE Spec2Model ----------------------------
(***************************************************************************)
(* Model of src/save-manager.py (UndertaleeSaveManager): the selection     *)
(* parser, the staging-directory clear, the file-set copier, the backup    *)
(* catalog and the interactive create / restore / delete workflows.        *)
(*                                                                         *)
(* Text typed by the user is a sequence of one-character strings, so that  *)
(* strip(), lower(), split() and int() are computed and not assumed.       *)
(***************************************************************************)
EXTENDS Integers, Sequences, FiniteSets, TLC

VARIABLES
    \* ---- the interactive workflow (main_menu and the operations it calls)
    game,       \* the game directory: file name -> entry
    current,    \* saves/current: [exists, files]
    backups,    \* saves/backups: the snapshot directories, newest mtime first
    config,     \* config.json: [game_path, initialized]
    pc,         \* the prompt the program is blocked on
    listed,     \* the local `backups` of restore_backup / delete_backup (names)
    pending,    \* the local backup_name / selected_backup(s) awaiting an answer
    last,       \* what the last step read and reported
    created,    \* the game's save files as the last clean create_backup read them
    clock,      \* datetime.now(), as an index of Timestamps
    \* ---- _parse_selection and its caller, applied to one input
    tokens, selection, max_num, parsed, targets, phase,
    \* ---- clear_directory applied to one directory
    dir, calls, dirs

wfVars    == <<game, current, backups, config, pc, listed, pending, last, created,
               clock>>
parseVars == <<tokens, selection, max_num, parsed, targets, phase>>
clearVars == <<dir, calls, dirs>>
vars      == <<wfVars, parseVars, clearVars>>

---------------------------------------------------------------------------
(* Text *)

Digits == <<"0", "1", "2", "3", "4", "5", "6", "7", "8", "9">>

IsDigit(c) == \E i \in 1..10 : Digits[i] = c

DigitVal(c) == (CHOOSE i \in 1..10 : Digits[i] = c) - 1

\* str.lower() on the letters the inputs are written with
LowerChar(c) ==
    CASE c = "A" -> "a"
      [] c = "E" -> "e"
      [] c = "L" -> "l"
      [] c = "N" -> "n"
      [] c = "O" -> "o"
      [] c = "S" -> "s"
      [] c = "Y" -> "y"
      [] OTHER   -> c

Lower(s) == [i \in 1..Len(s) |-> LowerChar(s[i])]

RECURSIVE LStrip(_)
LStrip(s) == IF s # <<>> /\ s[1] = " " THEN LStrip(Tail(s)) ELSE s

RECURSIVE RStrip(_)
RStrip(s) ==
    IF s # <<>> /\ s[Len(s)] = " " THEN RStrip(SubSeq(s, 1, Len(s) - 1)) ELSE s

\* str.strip()
Strip(s) == RStrip(LStrip(s))

\* the position of the first c in s, 0 when there is none
RECURSIVE FindFrom(_, _, _)
FindFrom(s, c, i) ==
    IF i > Len(s) THEN 0
    ELSE IF s[i] = c THEN i
    ELSE FindFrom(s, c, i + 1)

Contains(s, c) == FindFrom(s, c, 1) # 0

\* str.split(c): always at least one part, "" gives <<"">>
RECURSIVE Split(_, _)
Split(s, c) ==
    LET i == FindFrom(s, c, 1)
    IN  IF i = 0 THEN <<s>>
        ELSE <<SubSeq(s, 1, i - 1)>> \o Split(SubSeq(s, i + 1, Len(s)), c)

\* str.split(c, 1) of a string that contains c
SplitOnce(s, c) ==
    LET i == FindFrom(s, c, 1)
    IN  <<SubSeq(s, 1, i - 1), SubSeq(s, i + 1, Len(s))>>

AllDigits(s) == s # <<>> /\ \A i \in 1..Len(s) : IsDigit(s[i])

RECURSIVE DecimalValue(_)
DecimalValue(s) ==
    IF s = <<>> THEN 0
    ELSE 10 * DecimalValue(SubSeq(s, 1, Len(s) - 1)) + DigitVal(s[Len(s)])

\* int(s) raises ValueError unless s, stripped, is an optional sign and digits.
\* Of the signs only "-" is in the inputs' alphabet ("+" and "_" are not).
IntOk(s) ==
    LET t == Strip(s)
    IN  \/ AllDigits(t)
        \/ t # <<>> /\ t[1] = "-" /\ AllDigits(Tail(t))

IntValue(s) ==
    LET t == Strip(s)
    IN  IF t[1] = "-" THEN 0 - DecimalValue(Tail(t)) ELSE DecimalValue(t)

---------------------------------------------------------------------------
(* _parse_selection *)

\* sorted(list(indices))
RECURSIVE SortedList(_)
SortedList(S) ==
    IF S = {} THEN <<>>
    ELSE LET m == CHOOSE x \in S : \A y \in S : x <= y
         IN  <<m>> \o SortedList(S \ {m})

\* ParsePart with the range test on the ends' order left out
ParsePartUnordered(part0, n) ==
    LET part == Strip(part0)
    IN  IF Contains(part, "-")
        THEN LET se == SplitOnce(part, "-")
             IN  IF ~IntOk(se[1]) \/ ~IntOk(se[2])
                 THEN [ok |-> FALSE, idx |-> {}]
                 ELSE LET start_idx == IntValue(se[1]) - 1
                          end_idx   == IntValue(se[2]) - 1
                      IN  IF /\ 0 <= start_idx /\ start_idx < n
                             /\ 0 <= end_idx /\ end_idx < n
                          THEN [ok |-> TRUE,
                                idx |-> (start_idx..end_idx) \cup (end_idx..start_idx)]
                          ELSE [ok |-> TRUE, idx |-> {}]
        ELSE IF ~IntOk(part)
             THEN [ok |-> FALSE, idx |-> {}]
             ELSE LET idx == IntValue(part) - 1
                  IN  IF 0 <= idx /\ idx < n
                      THEN [ok |-> TRUE, idx |-> {idx}]
                      ELSE [ok |-> TRUE, idx |-> {}]

\* One pass of the loop body on one part: whether int() raised, and the indices
\* the part adds.
ParsePart(part0, n) ==
    LET part == Strip(part0)
    IN  IF Contains(part, "-")
        THEN LET se == SplitOnce(part, "-")
             IN  IF ~IntOk(se[1]) \/ ~IntOk(se[2])
                 THEN [ok |-> FALSE, idx |-> {}]
                 ELSE LET start_idx == IntValue(se[1]) - 1
                          end_idx   == IntValue(se[2]) - 1
                      IN  IF /\ 0 <= start_idx /\ start_idx < n
                             /\ 0 <= end_idx /\ end_idx < n
                             /\ start_idx <= end_idx
                          THEN [ok |-> TRUE, idx |-> start_idx..end_idx]
                          ELSE [ok |-> TRUE, idx |-> {}]
        ELSE IF ~IntOk(part)
             THEN [ok |-> FALSE, idx |-> {}]
             ELSE LET idx == IntValue(part) - 1
                  IN  IF 0 <= idx /\ idx < n
                      THEN [ok |-> TRUE, idx |-> {idx}]
                      ELSE [ok |-> TRUE, idx |-> {}]

\* A ValueError in any part leaves the try block: the result is [].
ParseSelection(sel, n) ==
    LET parts == Split(sel, ",")
        res   == [i \in 1..Len(parts) |-> ParsePart(parts[i], n)]
    IN  IF \E i \in 1..Len(parts) : ~res[i].ok
        THEN <<>>
        ELSE SortedList(UNION {res[i].idx : i \in 1..Len(parts)})

\* input("...").strip().lower()
Normalized(text) == Lower(Strip(text))

AllWord == <<"a", "l", "l">>

\* SelectionParser comparing what was typed without lower()
SelectionParserCaseSensitive(text, n) ==
    IF Strip(text) = AllWord
    THEN [i \in 1..n |-> i - 1]
    ELSE ParseSelection(Strip(text), n)

\* The indices _delete_multiple_backups goes on to delete for what was typed:
\* every backup for "all", else what _parse_selection returns.
SelectionParser(text, n) ==
    IF Normalized(text) = AllWord
    THEN [i \in 1..n |-> i - 1]
    ELSE ParseSelection(Normalized(text), n)


---------------------------------------------------------------------------
(* The inputs _parse_selection is applied to: a selection is written from a
   list of tokens, so that what each token means is known before it is
   formatted and parsed back. *)

MaxNum    == 3      \* numbers written in a token, and the catalog sizes 0..MaxNum
MaxTokens == 2      \* tokens in a selection

RECURSIVE DecimalString(_)
DecimalString(k) ==
    IF k < 10 THEN <<Digits[k + 1]>>
    ELSE DecimalString(k \div 10) \o <<Digits[(k % 10) + 1]>>

Single(k)   == [kind |-> "single", a |-> k, b |-> k, text |-> <<>>]
Range(a, b) == [kind |-> "range", a |-> a, b |-> b, text |-> <<>>]
Bad(text)   == [kind |-> "bad", a |-> 0, b |-> 0, text |-> text]
All(text)   == [kind |-> "all", a |-> 0, b |-> 0, text |-> text]

\* Tokens that are neither an integer k nor a range a-b of two integers
MalformedTokens ==
    { <<>>,                        \* empty
      <<"a">>,                     \* non-numeric
      <<"1", "-">>,                \* ranges with a missing or bad end
      <<"-", "1">>,
      <<"1", "-", "2", "-", "3">>,
      <<"1", "-", "-", "2">> }     \* a range whose end carries a sign

AllSpellings ==
    { <<"a", "l", "l">>, <<"A", "L", "L">>, <<"A", "l", "l">>, <<"a", "L", "l">> }

WellFormedTokens ==
    { Single(k) : k \in 0..MaxNum } \cup
    { Range(x[1], x[2]) : x \in (1..MaxNum) \X (1..MaxNum) }

Tokens == WellFormedTokens \cup { Bad(t) : t \in MalformedTokens }

TokenLists ==
    UNION { [1..n -> Tokens] : n \in 1..MaxTokens }
    \cup { <<All(t)>> : t \in AllSpellings }

\* The examples the specification names, with their catalog size
ExampleInputs ==
    { <<<<Single(1), Single(3), Single(5)>>, 5>>,
      <<<<Range(2, 1)>>, 5>>,
      <<<<Range(10, 12), Single(3), Range(2, 4)>>, 12>>,
      <<<<Single(1), Bad(<<"1", "-", "-", "2">>), Single(2)>>, 2>>,
      <<<<Single(1), Single(2), Bad(<<"a">>)>>, 2>>,
      <<<<Range(0, 1), Single(2)>>, 2>>,
      <<<<Single(1), Bad(<<"1", "a">>)>>, 2>>,
      <<<<Bad(<<"1", " ", "2">>), Single(1)>>, 2>>,
      <<<<Single(2), Bad(<<"1", "-", "a">>)>>, 2>> }

FormatToken(t, pad) ==
    LET body == CASE t.kind = "single" -> DecimalString(t.a)
                  [] t.kind = "range"  ->
                        DecimalString(t.a) \o <<"-">> \o DecimalString(t.b)
                  [] OTHER             -> t.text
    IN  IF pad THEN <<" ">> \o body \o <<" ">> ELSE body

RECURSIVE FormatSelection(_, _)
FormatSelection(ts, pad) ==
    IF Len(ts) = 1 THEN FormatToken(ts[1], pad)
    ELSE FormatToken(ts[1], pad) \o <<",">> \o FormatSelection(Tail(ts), pad)

NotParsed == <<-1>>

ParseInit ==
    /\ \E in \in ({ <<ts, n>> : ts \in TokenLists, n \in 0..MaxNum }
                    \cup ExampleInputs), pad \in BOOLEAN :
          /\ tokens = in[1]
          /\ max_num = in[2]
          /\ selection = FormatSelection(in[1], pad)
    /\ parsed = NotParsed
    /\ targets = NotParsed
    /\ phase = "typed"

\* selected_indices = self._parse_selection(selection, len(backups)), and the
\* indices its caller deletes for the same text
Parse ==
    /\ phase = "typed"
    /\ parsed' = ParseSelection(selection, max_num)
    /\ targets' = SelectionParser(selection, max_num)
    /\ phase' = "parsed"
    /\ UNCHANGED <<tokens, selection, max_num>>


---------------------------------------------------------------------------
(* Directories *)

\* self.save_files
SaveFiles == <<"file0", "file8", "file9", "undertale.ini", "config.ini">>

SaveFileSet == { SaveFiles[i] : i \in 1..Len(SaveFiles) }

\* a name outside self.save_files
OtherFile == "notes.txt"

Names == SaveFileSet \cup {OtherFile}

Absent   == "absent"
SubDir   == "dir"
Contents == {"A", "B"}
Entries  == {Absent, SubDir} \cup Contents

IsFile(e) == e \in Contents

NoFiles == [f \in Names |-> Absent]

NoDirectory == [exists |-> FALSE, files |-> NoFiles]

\* clear_directory deleting subdirectories too
ClearDirectoryRecursive(d) == [exists |-> TRUE, files |-> NoFiles]

\* clear_directory: unlink every regular file directly inside, or mkdir
ClearDirectory(d) ==
    IF d.exists
    THEN [exists |-> TRUE,
          files  |-> [f \in Names |-> IF IsFile(d.files[f]) THEN Absent
                                      ELSE d.files[f]]]
    ELSE [exists |-> TRUE, files |-> NoFiles]

MaxCalls == 2       \* consecutive calls of clear_directory

ClearInit ==
    /\ dir \in {NoDirectory} \cup
               { [exists |-> TRUE, files |-> fs] : fs \in [Names -> Entries] }
    /\ calls = 0
    /\ dirs = <<dir>>

\* self.clear_directory(directory), nothing added in between
ClearCall ==
    /\ calls < MaxCalls
    /\ dir' = ClearDirectory(dir)
    /\ calls' = calls + 1
    /\ dirs' = Append(dirs, dir')


---------------------------------------------------------------------------
(* The file-set copier and the backup catalog *)

MaxRefused == 1     \* how many of the save files the file system may refuse to copy

\* The files whose copy may raise IOError for a cause outside the program: the
\* first MaxRefused names of self.save_files
Refusable == { SaveFiles[i] : i \in 1..MaxRefused }

\* What one call of copy_save_files may be refused: any of the refusable files
\* it finds in the source
FailSets(src) == SUBSET { f \in Refusable : IsFile(src[f]) }

\* copy_save_files that copies every file of the source, whatever its name
CopySaveFilesAnyName(src, dst, fail) ==
    LET done == { f \in Names : IsFile(src[f]) /\ f \notin fail }
    IN  [files  |-> [f \in Names |->
                        IF f \in done /\ dst[f] # SubDir THEN src[f] ELSE dst[f]],
         copied |-> Cardinality(done),
         errors |-> Cardinality({ f \in Names :
                        src[f] = SubDir \/ f \in fail })]

\* copy_save_files(source_path, destination_path): for each name of
\* self.save_files that exists in the source, shutil.copy2 it; an IOError is
\* printed and the loop goes on.  copy2 of a source that is a directory raises
\* (IsADirectoryError); copy2 onto a destination that is a directory copies
\* into that directory and succeeds.  A refused copy leaves the destination
\* file as it was.
CopySaveFiles(src, dst, fail) ==
    LET done == { f \in SaveFileSet : IsFile(src[f]) /\ f \notin fail }
    IN  [files  |-> [f \in Names |->
                        IF f \in done /\ dst[f] # SubDir THEN src[f] ELSE dst[f]],
         copied |-> Cardinality(done),
         errors |-> Cardinality({ f \in SaveFileSet :
                        src[f] = SubDir \/ f \in fail })]

\* has_saves: any((backup_dir / filename).exists() for filename in save_files)
HasSaves(b) == \E f \in SaveFileSet : b.files[f] # Absent

NamesOf(bs) == [i \in 1..Len(bs) |-> bs[i].name]

\* get_backup_list: the directories of saves/backups that hold a recognized
\* file, newest first (the names stand for the records 'name' and 'path')
GetBackupList(bs) == NamesOf(SelectSeq(bs, HasSaves))

Exists(bs, name) == \E i \in 1..Len(bs) : bs[i].name = name

\* a lookup that opens the oldest directory, whatever the name asked for
FilesOfOldest(bs, name) ==
    IF bs = <<>> THEN NoFiles ELSE bs[Len(bs)].files

\* the files of the directory saves/backups/<name> (backup['path'])
FilesOf(bs, name) ==
    IF Exists(bs, name)
    THEN bs[CHOOSE i \in 1..Len(bs) : bs[i].name = name].files
    ELSE NoFiles

Without(bs, name) ==
    LET Other(b) == b.name # name IN SelectSeq(bs, Other)

\* shutil.rmtree(path): the directory is gone, or OSError is raised.  A failed
\* rmtree is one that raises before it has removed anything (the directory or
\* its first entry is refused); the directory is then as it was.
Rmtree(bs, name, fails) ==
    IF fails THEN bs ELSE Without(bs, name)

\* the deletion loop that gives up at the first OSError
RECURSIVE RemoveEachUntilError(_, _, _)
RemoveEachUntilError(bs, names, failed) ==
    IF names = <<>> \/ Head(names) \in failed THEN bs
    ELSE RemoveEachUntilError(Rmtree(bs, Head(names), FALSE), Tail(names), failed)

\* the deletion loop that leaves the last target out
RECURSIVE RemoveEachButLast(_, _, _)
RemoveEachButLast(bs, names, failed) ==
    IF Len(names) <= 1 THEN bs
    ELSE RemoveEachButLast(Rmtree(bs, Head(names), Head(names) \in failed),
                           Tail(names), failed)

\* for backup in ...: try: shutil.rmtree(backup['path']) except OSError: print
RECURSIVE RemoveEach(_, _, _)
RemoveEach(bs, names, failed) ==
    IF names = <<>> THEN bs
    ELSE RemoveEach(Rmtree(bs, Head(names), Head(names) \in failed),
                    Tail(names), failed)

\* deleted_count
DeletedCount(names, failed) ==
    Cardinality({ i \in 1..Len(names) : names[i] \notin failed })


---------------------------------------------------------------------------
(* What the user types and what the environment answers *)

\* answers to a (y/n) prompt: the explicit yes tokens as they may be typed, and
\* other answers
YesAnswers == { <<"y">>, <<" ", "Y", "E", "S", " ">> }

OtherAnswers == { <<"n">>, <<>>, <<"y", "e", "s", "s">> }

Answers == YesAnswers \cup OtherAnswers

\* a prompt whose blank answer means yes
IsYesOrBlank(answer) == Normalized(answer) \in { <<>>, <<"y">>, <<"y", "e", "s">> }

\* confirm = input(...).strip().lower(); confirm in ['y', 'yes']
IsYes(answer) == Normalized(answer) \in { <<"y">>, <<"y", "e", "s">> }

\* answers to a "number, 0 to cancel" prompt
Choices == { <<"0">>, <<"1">>, <<" ", "2">>, <<"3">>, <<"7">>, <<"x">>, <<>> }

\* answers to the (a/s/0) prompt of delete_backup
Modes == { <<"0">>, <<"a">>, <<"S">>, <<"x">> }

\* answers to the selection prompt of _delete_multiple_backups
SelectionInputs ==
    { <<"a", "l", "l">>, <<" ", "A", "L", "L">>,
      <<"1">>, <<"2", "-", "3">>, <<"1", ",", "3">>, <<"2", "-", "1">>,
      <<"a", "b", "c">>, <<"1", ",", "1", "-", "-", "2">> }

\* backup names the user types at the name prompt; "" is the blank answer
NameInputs == {"", "slot1"}

\* f"backup_{timestamp}" for the seconds the session lasts, in order
Timestamps == <<"backup_20250101_120000", "backup_20250101_120001">>

NoName == ""

NoCreate == [name |-> NoName, files |-> NoFiles, clean |-> FALSE]

\* What a step did: the operation it completed ("none" when it only asked or
\* cancelled, "declined" when a confirmation was not given), whether the answer
\* typed was one of YesAnswers, the snapshot it was about, the snapshots whose
\* rmtree raised, the count it printed, the copy errors it printed and how many
\* of them the file system caused.
Report(op, yes, name, failed, count, errors, refused) ==
    [op |-> op, yes |-> yes, name |-> name, failed |-> failed,
     count |-> count, errors |-> errors, refused |-> refused]

Nothing == Report("none", FALSE, NoName, {}, 0, 0, 0)

Answered(answer) ==
    Report(IF answer \in YesAnswers THEN "none" ELSE "declined",
           answer \in YesAnswers, NoName, {}, 0, 0, 0)

\* The record of the last clean create_backup stands while the snapshot it
\* stored is as it was stored.
KeepCreated(bs) ==
    IF created.name = NoName \/ ~Exists(backups, created.name)
       \/ (Exists(bs, created.name)
           /\ FilesOf(bs, created.name) = FilesOf(backups, created.name))
    THEN created
    ELSE NoCreate

Stores == <<game, current, backups, config>>

---------------------------------------------------------------------------
(* The workflow: one action per prompt answered *)

\* the game directory of the specification's scenario, with one more file
ScenarioGame ==
    [f \in Names |-> IF f \in {"file0", "file8", "config.ini", OtherFile}
                     THEN "A" ELSE Absent]

\* a staging directory left with a subdirectory, a stale save and another file
UsedStage ==
    [exists |-> TRUE,
     files  |-> [f \in Names |-> CASE f = "file0" -> SubDir
                                   [] f \in {"file9", OtherFile} -> "B"
                                   [] OTHER -> Absent]]

OldSnapshot ==
    [name  |-> "slot1",
     files |-> [f \in Names |-> IF f \in {"file0", "file9", OtherFile}
                                THEN "B" ELSE Absent]]

OtherSnapshot ==
    [name  |-> "slot2",
     files |-> [f \in Names |-> IF f = "file8" THEN "B" ELSE Absent]]

\* a directory of saves/backups that holds no recognized file
StrayDirectory ==
    [name  |-> "tmp",
     files |-> [f \in Names |-> IF f = OtherFile THEN "B" ELSE Absent]]

\* The game directory, saves/current and saves/backups the session starts with
InitialStores ==
    { <<ScenarioGame, NoDirectory, <<OldSnapshot>>>>,
      <<ScenarioGame, UsedStage, <<OtherSnapshot, StrayDirectory, OldSnapshot>>>>,
      <<NoFiles, NoDirectory, <<OldSnapshot, StrayDirectory>>>> }

\* main_menu: without config['initialized'] it returns at once
WfInit ==
    /\ \E st \in InitialStores :
          game = st[1] /\ current = st[2] /\ backups = st[3]
    /\ config \in [game_path : BOOLEAN, initialized : BOOLEAN]
    /\ pc = IF config.initialized THEN "menu" ELSE "exit"
    /\ listed = <<>>
    /\ pending = <<>>
    /\ last = Nothing
    /\ created = NoCreate
    /\ clock = 1

\* the operation returns to main_menu's loop
ToMenu(report) ==
    /\ pc' = "menu"
    /\ listed' = <<>>
    /\ pending' = <<>>
    /\ last' = report

\* a create_backup that moves the game's save files into saves/current instead
\* of copying them
MenuCreateMoving ==
    /\ UNCHANGED <<parseVars, clearVars, clock>>
    /\ pc = "menu"
    /\ UNCHANGED <<backups, config>>
    /\ IF ~config.game_path
       THEN /\ ToMenu(Nothing)
            /\ UNCHANGED <<game, current, created>>
       ELSE \E fail \in FailSets(game) :
              LET r == CopySaveFiles(game, ClearDirectory(current).files, fail)
              IN  /\ current' = [exists |-> TRUE, files |-> r.files]
                  /\ game' = [f \in Names |->
                                IF f \in SaveFileSet /\ IsFile(game[f]) /\ f \notin fail
                                THEN Absent ELSE game[f]]
                  /\ IF r.copied = 0
                     THEN /\ ToMenu(Report("none", FALSE, NoName,
                                           {}, 0, r.errors, Cardinality(fail)))
                          /\ created' = NoCreate
                     ELSE /\ pc' = "create_name"
                          /\ UNCHANGED <<listed, pending>>
                          /\ last' = Report("none", FALSE, NoName, {}, r.copied,
                                            r.errors, Cardinality(fail))
                          /\ created' =
                               [name  |-> NoName,
                                files |-> [f \in Names |->
                                              IF f \in SaveFileSet /\ IsFile(game[f])
                                              THEN game[f] ELSE Absent],
                                clean |-> r.errors = 0]

\* choice "1": create_backup up to its name prompt
MenuCreate ==
    /\ UNCHANGED <<parseVars, clearVars, clock>>
    /\ pc = "menu"
    /\ UNCHANGED <<game, backups, config>>
    /\ IF ~config.game_path
       THEN /\ ToMenu(Nothing)
            /\ UNCHANGED <<current, created>>
       ELSE \E fail \in FailSets(game) :
              LET r == CopySaveFiles(game, ClearDirectory(current).files, fail)
              IN  /\ current' = [exists |-> TRUE, files |-> r.files]
                  /\ IF r.copied = 0
                     THEN /\ ToMenu(Report("none", FALSE, NoName,
                                           {}, 0, r.errors, Cardinality(fail)))
                          /\ created' = NoCreate
                     ELSE /\ pc' = "create_name"
                          /\ UNCHANGED <<listed, pending>>
                          /\ last' = Report("none", FALSE, NoName, {}, r.copied,
                                            r.errors, Cardinality(fail))
                          /\ created' =
                               [name  |-> NoName,
                                files |-> [f \in Names |->
                                              IF f \in SaveFileSet /\ IsFile(game[f])
                                              THEN game[f] ELSE Absent],
                                clean |-> r.errors = 0]

\* copied = self.copy_save_files(self.current_save_dir, backup_path)
WriteSnapshot(name, yes) ==
    \E fail \in FailSets(current.files) :
      LET r == CopySaveFiles(current.files, NoFiles, fail)
      IN  /\ backups' = <<[name |-> name, files |-> r.files]>>
                            \o Without(backups, name)
          /\ ToMenu(Report("create", yes, name, {}, r.copied, r.errors,
                           Cardinality(fail)))
          /\ created' = IF created.clean /\ r.errors = 0
                        THEN [created EXCEPT !.name = name]
                        ELSE NoCreate
          /\ UNCHANGED <<game, current, config>>

\* create_backup, step 3: rmtree a directory of that name (an OSError here is
\* not caught: main() prints it and the program ends), then copy saves/current
\* into the new directory
StoreBackup(name, yes) ==
    \E rmFails \in (IF Exists(backups, name) THEN BOOLEAN ELSE {FALSE}) :
      IF rmFails
      THEN /\ backups' = Rmtree(backups, name, TRUE)
           /\ pc' = "exit"
           /\ listed' = <<>>
           /\ pending' = <<>>
           /\ last' = Report("create", yes, name, {name}, 0, 0, 0)
           /\ created' = NoCreate
           /\ UNCHANGED <<game, current, config>>
      ELSE WriteSnapshot(name, yes)

\* the name prompt of create_backup: blank takes the timestamp name and goes
\* on, a name in use asks before going on, a new name goes on
CreateName ==
    /\ UNCHANGED <<parseVars, clearVars>>
    /\ pc = "create_name"
    /\ \E typed \in NameInputs :
         IF typed = ""
         THEN \E now \in clock..Len(Timestamps) :
                  /\ clock' = now
                  /\ StoreBackup(Timestamps[now], FALSE)
         ELSE IF Exists(backups, typed)
              THEN /\ pc' = "create_overwrite"
                   /\ pending' = <<typed>>
                   /\ last' = Nothing
                   /\ UNCHANGED <<game, current, backups, config, listed, created,
                                   clock>>
              ELSE StoreBackup(typed, FALSE) /\ UNCHANGED clock

\* the overwrite prompt of create_backup: yes goes on, anything else asks for
\* a name again
CreateOverwrite ==
    /\ UNCHANGED <<parseVars, clearVars>>
    /\ pc = "create_overwrite"
    /\ \E answer \in Answers :
         IF IsYes(answer)
         THEN StoreBackup(pending[1], answer \in YesAnswers) /\ UNCHANGED clock
         ELSE /\ pc' = "create_name"
              /\ pending' = <<>>
              /\ last' = Answered(answer)
              /\ UNCHANGED <<game, current, backups, config, listed, created,
                              clock>>

\* choice "2": restore_backup up to its number prompt
MenuRestore ==
    /\ UNCHANGED <<parseVars, clearVars, clock>>
    /\ pc = "menu"
    /\ UNCHANGED <<game, current, backups, config, created>>
    /\ IF GetBackupList(backups) = <<>>
       THEN ToMenu(Nothing)
       ELSE /\ pc' = "restore_choice"
            /\ listed' = GetBackupList(backups)
            /\ pending' = <<>>
            /\ last' = Nothing

\* a "number, 0 to cancel" prompt: 0 cancels, a number of the list selects,
\* anything else asks again
AskNumber(here, next) ==
    /\ UNCHANGED <<parseVars, clearVars, clock>>
    /\ pc = here
    /\ UNCHANGED <<game, current, backups, config, listed, created>>
    /\ \E choice \in Choices :
         IF Strip(choice) = <<"0">>
         THEN ToMenu(Nothing)
         ELSE IF IntOk(choice) /\ 1 <= IntValue(choice)
                               /\ IntValue(choice) <= Len(listed)
              THEN /\ pc' = next
                   /\ pending' = <<listed[IntValue(choice)]>>
                   /\ last' = Nothing
              ELSE /\ pc' = here
                   /\ pending' = <<>>
                   /\ last' = Nothing

RestoreChoice == AskNumber("restore_choice", "restore_confirm")

\* the confirmation of restore_backup, then backup -> saves/current -> game
RestoreConfirm ==
    /\ UNCHANGED <<parseVars, clearVars, clock>>
    /\ pc = "restore_confirm"
    /\ UNCHANGED <<backups, config, created>>
    /\ \E answer \in Answers :
         IF ~IsYes(answer)
         THEN /\ ToMenu(Answered(answer))
              /\ UNCHANGED <<game, current>>
         ELSE IF ~config.game_path
              THEN /\ ToMenu(Answered(answer))
                   /\ UNCHANGED <<game, current>>
              ELSE \E fail1 \in FailSets(FilesOf(backups, pending[1])) :
                     LET r1 == CopySaveFiles(FilesOf(backups, pending[1]),
                                             ClearDirectory(current).files, fail1)
                     IN  \E fail2 \in FailSets(r1.files) :
                           LET r2 == CopySaveFiles(r1.files, game, fail2)
                           IN  /\ current' = [exists |-> TRUE, files |-> r1.files]
                               /\ game' = r2.files
                               /\ ToMenu(Report("restore", answer \in YesAnswers,
                                          pending[1], {}, r2.copied,
                                          r1.errors + r2.errors,
                                          Cardinality(fail1) + Cardinality(fail2)))

\* choice "3" shows nothing new: the list is printed by every turn of the loop
MenuList ==
    /\ UNCHANGED <<parseVars, clearVars, clock>>
    /\ pc = "menu"
    /\ ToMenu(Nothing)
    /\ UNCHANGED <<game, current, backups, config, created>>

\* any other choice is reported and the menu is shown again
MenuInvalid ==
    /\ UNCHANGED <<parseVars, clearVars, clock>>
    /\ pc = "menu"
    /\ ToMenu(Nothing)
    /\ UNCHANGED <<game, current, backups, config, created>>

\* choice "0" (or Ctrl-C at the prompt) leaves the loop
MenuQuit ==
    /\ UNCHANGED <<parseVars, clearVars, clock>>
    /\ pc = "menu"
    /\ pc' = "exit"
    /\ listed' = <<>>
    /\ pending' = <<>>
    /\ last' = Nothing
    /\ UNCHANGED <<game, current, backups, config, created>>

\* choice "4": delete_backup up to its (a/s/0) prompt
MenuDelete ==
    /\ UNCHANGED <<parseVars, clearVars, clock>>
    /\ pc = "menu"
    /\ UNCHANGED <<game, current, backups, config, created>>
    /\ IF GetBackupList(backups) = <<>>
       THEN ToMenu(Nothing)
       ELSE /\ pc' = "delete_mode"
            /\ listed' = GetBackupList(backups)
            /\ pending' = <<>>
            /\ last' = Nothing

\* mode = input(...).strip().lower()
DeleteMode ==
    /\ UNCHANGED <<parseVars, clearVars, clock>>
    /\ pc = "delete_mode"
    /\ UNCHANGED <<game, current, backups, config, created>>
    /\ \E mode \in Modes :
         IF Normalized(mode) = <<"a">>
         THEN /\ pc' = "multi_selection"
              /\ last' = Nothing
              /\ UNCHANGED <<listed, pending>>
         ELSE IF Normalized(mode) = <<"s">>
              THEN /\ pc' = "single_choice"
                   /\ last' = Nothing
                   /\ UNCHANGED <<listed, pending>>
              ELSE ToMenu(Nothing)

SingleChoice == AskNumber("single_choice", "single_confirm")

\* the deletions of a confirmed delete: every target in turn
DeleteTargets(op, answer) ==
    \E failed \in SUBSET { pending[i] : i \in 1..Len(pending) } :
      /\ backups' = RemoveEach(backups, pending, failed)
      /\ created' = KeepCreated(backups')
      /\ ToMenu(Report(op, answer \in YesAnswers, NoName, failed,
                       DeletedCount(pending, failed), 0, 0))

\* a confirmation of a delete: yes deletes the targets, anything else cancels
ConfirmDelete(here, op) ==
    /\ UNCHANGED <<parseVars, clearVars, clock>>
    /\ pc = here
    /\ UNCHANGED <<game, current, config>>
    /\ \E answer \in Answers :
         IF IsYes(answer)
         THEN DeleteTargets(op, answer)
         ELSE /\ ToMenu(Answered(answer))
              /\ UNCHANGED <<backups, created>>

\* the confirmation of _delete_single_backup
SingleConfirm == ConfirmDelete("single_confirm", "delete_single")

\* the selection prompt of _delete_multiple_backups
MultiSelection ==
    /\ UNCHANGED <<parseVars, clearVars, clock>>
    /\ pc = "multi_selection"
    /\ UNCHANGED <<game, current, backups, config, listed, created>>
    /\ \E typed \in SelectionInputs :
         LET idx == SelectionParser(typed, Len(listed))
         IN  IF Normalized(typed) = AllWord
             THEN /\ pc' = "multi_all_confirm"
                  /\ pending' = [i \in 1..Len(idx) |-> listed[idx[i] + 1]]
                  /\ last' = Nothing
             ELSE IF idx = <<>>
                  THEN /\ pc' = "menu"
                       /\ pending' = <<>>
                       /\ last' = Nothing
                  ELSE /\ pc' = "multi_confirm"
                       /\ pending' = [i \in 1..Len(idx) |-> listed[idx[i] + 1]]
                       /\ last' = Nothing

\* the confirmation of "all"
MultiAllConfirm == ConfirmDelete("multi_all_confirm", "delete_all")

\* the confirmation of a parsed selection
MultiConfirm == ConfirmDelete("multi_confirm", "delete_multi")

WfNext ==
    \/ MenuCreate \/ CreateName \/ CreateOverwrite
    \/ MenuRestore \/ RestoreChoice \/ RestoreConfirm
    \/ MenuList \/ MenuInvalid \/ MenuQuit
    \/ MenuDelete \/ DeleteMode
    \/ SingleChoice \/ SingleConfirm
    \/ MultiSelection \/ MultiAllConfirm \/ MultiConfirm

---------------------------------------------------------------------------
(* Specifications *)

\* the interactive session (the parser's and the clear's own variables idle)
Init ==
    /\ WfInit
    /\ tokens = <<>> /\ selection = <<>> /\ max_num = 0
    /\ parsed = NotParsed /\ targets = NotParsed /\ phase = "idle"
    /\ dir = NoDirectory /\ calls = 0 /\ dirs = <<>>

Next == WfNext

Spec == Init /\ [][Next]_vars

\* _parse_selection applied to one typed selection
InitParse ==
    /\ ParseInit
    /\ game = NoFiles /\ current = NoDirectory /\ backups = <<>>
    /\ config = [game_path |-> FALSE, initialized |-> FALSE]
    /\ pc = "idle" /\ listed = <<>> /\ pending = <<>>
    /\ last = Nothing /\ created = NoCreate /\ clock = 1
    /\ dir = NoDirectory /\ calls = 0 /\ dirs = <<>>

NextParse == Parse /\ UNCHANGED <<wfVars, clearVars>>

SpecParse == InitParse /\ [][NextParse]_vars

\* clear_directory called again and again on one directory
InitClear ==
    /\ ClearInit
    /\ game = NoFiles /\ current = NoDirectory /\ backups = <<>>
    /\ config = [game_path |-> FALSE, initialized |-> FALSE]
    /\ pc = "idle" /\ listed = <<>> /\ pending = <<>>
    /\ last = Nothing /\ created = NoCreate /\ clock = 1
    /\ tokens = <<>> /\ selection = <<>> /\ max_num = 0
    /\ parsed = NotParsed /\ targets = NotParsed /\ phase = "idle"

NextClear == ClearCall /\ UNCHANGED <<wfVars, parseVars>>

SpecClear == InitClear /\ [][NextClear]_vars

---------------------------------------------------------------------------
(* Claims *)

\* C1: a snapshot stored by create_backup with no copy error and not touched
\* since, when restored with no copy error, gives the game directory every save
\* file it held when the backup was created, with the content it had then,
\* whatever the game directory holds for those files before the restore.
C1_RoundTrip ==
    (/\ last.op = "restore"
     /\ last.errors = 0
     /\ created.name # NoName
     /\ last.name = created.name)
        => \A f \in SaveFileSet :
              IsFile(created.files[f]) => game[f] = created.files[f]

\* C1 witness: the snapshot created from the scenario's game directory, which
\* held no file9, was restored after the restore of slot1 had put file9 and
\* another file0 into the game directory.
C1_Witness ==
    /\ last.op = "restore" /\ last.errors = 0
    /\ created.name # NoName /\ last.name = created.name
    /\ created.files["file0"] = "A" /\ created.files["config.ini"] = "A"
    /\ created.files["file9"] = Absent
    /\ game["file0"] = "A" /\ game["file9"] = "B"

\* C2: create_backup removes an existing snapshot directory (its rmtree ran and
\* did not fail) only in a step that read an explicit yes to the overwrite
\* question, whether the name was typed or made from the time.
C2_OverwriteOnlyConfirmed ==
    [][ (last'.op = "create" /\ last'.failed = {} /\ Exists(backups, last'.name))
            => (pc = "create_overwrite" /\ last'.yes) ]_vars

ConfirmPrompts ==
    {"create_overwrite", "restore_confirm", "single_confirm",
     "multi_all_confirm", "multi_confirm"}

C4_AllSelectsAll ==
    (phase = "parsed" /\ tokens[1].kind = "all")
        => targets = [i \in 1..max_num |-> i - 1]

\* C4 witness: ALL, typed in capitals, selected the three indices of a catalog
\* of three.
C4_Witness ==
    /\ phase = "parsed" /\ tokens[1].kind = "all"
    /\ selection # AllWord /\ max_num = 3 /\ targets = <<0, 1, 2>>

WellFormed(ts) == \A i \in 1..Len(ts) : ts[i].kind \in {"single", "range"}

\* the indices the tokens name in a catalog of n
Named(ts, n) ==
    { i \in 0..(n - 1) :
        \E j \in 1..Len(ts) :
            \/ ts[j].kind = "single" /\ ts[j].a = i + 1
            \/ ts[j].kind = "range" /\ 1 <= ts[j].a /\ ts[j].a <= i + 1
                                    /\ i + 1 <= ts[j].b /\ ts[j].b <= n }

\* C5: for a selection of well-formed tokens _parse_selection returns a
\* strictly increasing list of exactly the indices i, 0 <= i < N, that a single
\* k = i+1 or a range 1 <= a <= i+1 <= b <= N names; other ranges add nothing.
C5_WellFormedParse ==
    (phase = "parsed" /\ WellFormed(tokens))
        => /\ \A j \in 1..(Len(parsed) - 1) : parsed[j] < parsed[j + 1]
           /\ { parsed[j] : j \in 1..Len(parsed) } = Named(tokens, max_num)

\* C5 witness: "1,3,5" of a catalog of 5 gave [0, 2, 4].
C5_Witness ==
    /\ phase = "parsed"
    /\ tokens = <<Single(1), Single(3), Single(5)>>
    /\ max_num = 5 /\ parsed = <<0, 2, 4>>

\* C6: a selection with a malformed token gives the empty list, whatever the
\* tokens around it, and nothing is selected for deletion.
C6_MalformedRejected ==
    (phase = "parsed" /\ \E i \in 1..Len(tokens) : tokens[i].kind = "bad")
        => (parsed = <<>> /\ targets = <<>>)

HasSubDir(d) == \E f \in Names : d.files[f] = SubDir

\* C7 as stated: after the first call of clear_directory and after the second
\* the directory is present and empty.
C7_ClearLeavesEmpty ==
    calls >= 1 => (dir.exists /\ dir.files = NoFiles)

\* C7 amended: after the first call and after the second the directory is
\* present and holds no regular file, its subdirectories are the ones it had,
\* and the second call changes nothing.
C7_ClearIdempotent ==
    calls >= 1 =>
        /\ dir.exists
        /\ \A f \in Names :
              dir.files[f] = IF dirs[1].files[f] = SubDir THEN SubDir ELSE Absent
        /\ \A k \in 2..calls : dirs[k + 1] = dirs[k]

\* C7 witness: a directory that held a regular file and a subdirectory has been
\* cleared twice.
C7_Witness ==
    /\ calls = 2
    /\ HasSubDir(dirs[1])
    /\ \E f \in Names : IsFile(dirs[1].files[f])

\* C8: after a confirmed delete of "all" in which no rmtree failed,
\* get_backup_list returns the empty list, whatever else saves/backups holds.
C8_AllDeletedListsNothing ==
    (last.op = "delete_all" /\ last.failed = {})
        => GetBackupList(backups) = <<>>

\* C8 witness: all three listed snapshots were deleted and the directory with
\* no recognized file is still there.
C8_Witness ==
    /\ last.op = "delete_all" /\ last.failed = {} /\ last.count = 3
    /\ Exists(backups, StrayDirectory.name)

Targets == { pending[i] : i \in 1..Len(pending) }

\* C9: in a confirmed batch delete every selected snapshot whose own rmtree
\* does not fail is removed, also after another one's failed; the directories
\* that were not selected are as they were; the count printed is the number of
\* directories removed.
C9_BatchIndependent ==
    [][ (pc \in {"multi_all_confirm", "multi_confirm"}
         /\ last'.op \in {"delete_all", "delete_multi"})
            => /\ \A n \in Targets : Exists(backups', n) <=> n \in last'.failed
               /\ \A i \in 1..Len(backups) :
                     backups[i].name \notin Targets
                        => /\ Exists(backups', backups[i].name)
                           /\ FilesOf(backups', backups[i].name) = backups[i].files
               /\ last'.count =
                     Cardinality({ i \in 1..Len(backups) :
                                      ~Exists(backups', backups[i].name) })
      ]_vars

\* C9 witness: a selection of two was deleted, the rmtree of one failed, the
\* other was removed, and a listed snapshot that was not selected remains.
C9_Witness ==
    /\ last.op = "delete_multi"
    /\ Cardinality(last.failed) = 1 /\ last.count = 1
    /\ \E i \in 1..Len(backups) :
          HasSaves(backups[i]) /\ backups[i].name \notin last.failed

\* C10 as stated: a confirmed restore, even one that the file system refuses
\* nothing, leaves in the game directory the snapshot's content for the save
\* files the snapshot holds and what was there for every other file, whatever
\* saves/current held.
C10_RestoreOverwritesSnapshot ==
    [][ (pc = "restore_confirm" /\ last'.op = "restore" /\ last'.refused = 0)
            => \A f \in Names :
                  game'[f] =
                     IF f \in SaveFileSet /\ IsFile(FilesOf(backups, pending[1])[f])
                     THEN FilesOf(backups, pending[1])[f]
                     ELSE game[f]
      ]_vars

\* C10 amended: a confirmed restore changes no file of the game directory but
\* the save files the snapshot holds, whatever saves/current held; each of these
\* gets the snapshot's content, or is left as it was in a restore that printed
\* a copy error; with no copy error all of them get the snapshot's content.
C10_RestoreFrame ==
    [][ (pc = "restore_confirm" /\ last'.op = "restore")
            => \A f \in Names :
                  IF f \in SaveFileSet /\ IsFile(FilesOf(backups, pending[1])[f])
                  THEN \/ game'[f] = FilesOf(backups, pending[1])[f]
                       \/ last'.errors > 0 /\ game'[f] = game[f]
                  ELSE game'[f] = game[f]
      ]_vars

\* C10 witness: after a create_backup had filled saves/current with the game's
\* file8, slot1 was restored with no copy error: the game directory has slot1's
\* file0 and file9, its own file8 and notes.txt, and saves/current holds no
\* file8 any more.
C10_Witness ==
    /\ last.op = "restore" /\ last.name = OldSnapshot.name /\ last.errors = 0
    /\ created.name # NoName
    /\ game["file0"] = "B" /\ game["file9"] = "B"
    /\ game["file8"] = "A" /\ game[OtherFile] = "A"
    /\ current.files["file8"] = Absent

=============================================================================
